---- MODULE Spec2Model ----
(***************************************************************************)
(* A model of pystache's render engine (pystache/renderengine.py): the     *)
(* tag regular expression, the parser that turns a template into a parse   *)
(* tree, and the renderer that walks the parse tree against a context      *)
(* stack.  Text is modelled by TLA+ strings, positions are the 0-based     *)
(* indices of the Python code.                                             *)
(***************************************************************************)
EXTENDS Integers, Sequences, FiniteSets, TLC

VARIABLES template, partials, stack, frames, status, result, entry, log

vars == <<template, partials, stack, frames, status, result, entry, log>>

(***************************************************************************)
(* Text helpers: Python indexing and slicing on strings.                   *)
(***************************************************************************)
\* t[i], "" outside the string (where the code does not index).
At(t, i) == IF 0 <= i /\ i < Len(t) THEN SubSeq(t, i + 1, i + 1) ELSE ""

\* t[a:b] for 0 <= a
Slice(t, a, b) ==
    LET hi == IF b > Len(t) THEN Len(t) ELSE b
    IN IF a >= hi THEN "" ELSE SubSeq(t, a + 1, hi)

\* t[a:]
From(t, a) == Slice(t, a, Len(t))

StartsAt(t, p, s) == p + Len(s) <= Len(t) /\ Slice(t, p, p + Len(s)) = s

SetMax(S) == CHOOSE m \in S : \A n \in S : n <= m

SetMin(S) == CHOOSE m \in S : \A n \in S : m <= n

END_OF_LINE_CHARACTERS == {"\r", "\n"}

\* The characters the regular expression class \s matches.
Space == {" ", "\t", "\n", "\r", "\f"}

\* The characters the class [\ \t] of the whitespace group matches.
Blank == {" ", "\t"}

\* The tag type characters of tag_types, "=" and "{" excluded.
tag_types == {"!", ">", "&", "/", "#", "^"}

default_delims == <<"{{", "}}">>

(***************************************************************************)
(* The tag regular expression of Template._compile_regexps, matched the    *)
(* way Python's backtracking matcher does: a greedy group takes the        *)
(* longest run that lets the rest match, a lazy group the shortest, and    *)
(* the alternatives are tried in the order written.                        *)
(***************************************************************************)
NoMatch == [end |-> -1, tag |-> "", name |-> "", whitespace |-> ""]

\* The length of the run of characters of class cls that starts at p.
RECURSIVE Run(_, _, _)
Run(t, p, cls) == IF At(t, p) \in cls THEN 1 + Run(t, p + 1, cls) ELSE 0

\* Backtracking over the candidates P = {<<n, match with n characters>>}: a
\* greedy group keeps the longest candidate that lets the rest match, a lazy
\* group (and the lazy content, and the alternation) the first one.
Greedy(P) ==
    IF \A x \in P : x[2].end < 0 THEN NoMatch
    ELSE (CHOOSE x \in P : x[2].end >= 0 /\ \A y \in P : y[2].end >= 0 => y[1] <= x[1])[2]

Lazy(P) ==
    IF \A x \in P : x[2].end < 0 THEN NoMatch
    ELSE (CHOOSE x \in P : x[2].end >= 0 /\ \A y \in P : y[2].end >= 0 => x[1] <= y[1])[2]

WithName(m, name) == IF m.end >= 0 THEN [m EXCEPT !.name = name] ELSE m

WithTag(m, tag) == IF m.end >= 0 THEN [m EXCEPT !.tag = tag] ELSE m

WithWhitespace(m, whitespace) ==
    IF m.end >= 0 THEN [m EXCEPT !.whitespace = whitespace] ELSE m

\* \s* %(ctag)s at p, the end of the third alternative (close = ""), and
\* \s* close \s* %(ctag)s at p, the end of the change and raw alternatives.
RECURSIVE CloseAt(_, _, _, _)
CloseAt(t, p, close, ctag) ==
    Greedy({<<s, IF close = ""
                 THEN IF StartsAt(t, p + s, ctag)
                      THEN [NoMatch EXCEPT !.end = p + s + Len(ctag)] ELSE NoMatch
                 ELSE IF StartsAt(t, p + s, close)
                      THEN CloseAt(t, p + s + Len(close), "", ctag) ELSE NoMatch>> :
             s \in 0..Run(t, p, Space)})

\* The lazy, captured name at b: .+? (dotall FALSE, no "\n") or [\s\S]+?
\* (dotall TRUE), and the end of its alternative.
NameAt(t, b, dotall, close, ctag) ==
    Lazy({<<n, WithName(CloseAt(t, b + n, close, ctag), Slice(t, b, b + n))>> :
            n \in {n \in 1..(Len(t) - b) :
                     dotall \/ \A i \in 0..(n - 1) : At(t, b + i) # "\n"}})

\* One alternative at p:  open \s* name ending   where open is the matched
\* "=", "{" or tag type character ("" when the optional type is absent).
\* The captures are normalised as _handle_match does: tag is "=" for a
\* change and "{" for raw.
Alternative(t, p, open, dotall, close, ctag) ==
    IF ~StartsAt(t, p, open) THEN NoMatch
    ELSE WithTag(Greedy({<<s, NameAt(t, p + Len(open) + s, dotall, close, ctag)>> :
                           s \in 0..Run(t, p + Len(open), Space)}),
                 open)

\* The alternatives in the order of the pattern: change, raw, and the third
\* with its optional (greedy) tag type present, then absent.
Alts(c) ==
    <<[open |-> "=", dotall |-> FALSE, close |-> "="],
      [open |-> "{", dotall |-> FALSE, close |-> "}"],
      [open |-> IF c \in tag_types THEN c ELSE "", dotall |-> TRUE, close |-> ""],
      [open |-> "", dotall |-> TRUE, close |-> ""]>>

Alternatives(t, p, ctag) ==
    Lazy({<<i, Alternative(t, p, Alts(At(t, p))[i].open, Alts(At(t, p))[i].dotall,
                           Alts(At(t, p))[i].close, ctag)>> : i \in 1..4})

\* %(otag)s \s* (?: ... ) \s* %(ctag)s at position p.
Opened(t, p, otag, ctag) ==
    IF ~StartsAt(t, p, otag) THEN NoMatch
    ELSE Greedy({<<s, Alternatives(t, p + Len(otag) + s, ctag)>> :
                   s \in 0..Run(t, p + Len(otag), Space)})

\* (?P<whitespace>[\ \t]*) and the rest of the pattern at position k.
TagAt(t, k, otag, ctag) ==
    Greedy({<<w, WithWhitespace(Opened(t, k + w, otag, ctag), Slice(t, k, k + w))>> :
              w \in 0..Run(t, k, Blank)})

\* The match object: match_index is match.end('content'), end_index is
\* match.end().
Match(t, index, k, m) ==
    IF m.end < 0 THEN [found |-> FALSE]
    ELSE [found |-> TRUE, content |-> Slice(t, index, k), whitespace |-> m.whitespace,
          tag |-> m.tag, name |-> m.name, match_index |-> k, end_index |-> m.end]

\* self.tag_re.search(template, index): the lazy (?P<content>[\s\S]*?) ends
\* at the first position where the rest of the pattern matches.
RECURSIVE SearchFrom(_, _, _, _, _)
SearchAt(t, index, k, otag, ctag, m) ==
    IF m.end >= 0 THEN Match(t, index, k, m)
    ELSE SearchFrom(t, index, k + 1, otag, ctag)

SearchFrom(t, index, k, otag, ctag) ==
    IF k > Len(t) THEN [found |-> FALSE]
    ELSE SearchAt(t, index, k, otag, ctag, TagAt(t, k, otag, ctag))

Search(t, index, otag, ctag) == SearchFrom(t, index, index, otag, ctag)

(***************************************************************************)
(* Context values.  A value is None, a bool, a number, a string, a list, a *)
(* dictionary or a callable.  A callable takes arity arguments and returns *)
(* pre \o argument \o post (echo) or pre \o post, or raises.               *)
(***************************************************************************)
None == [t |-> "none"]

Bool(b) == [t |-> "bool", v |-> b]

Num(n) == [t |-> "num", v |-> n]

Str(s) == [t |-> "str", v |-> s]

List(xs) == [t |-> "list", v |-> xs]

Map(m) == [t |-> "map", v |-> m]

Lambda(arity, pre, echo, post, raises) ==
    [t |-> "lambda", arity |-> arity, pre |-> pre, echo |-> echo, post |-> post,
     raises |-> raises]

\* callable(val)
callable(val) == val.t = "lambda"

\* Python's truth value: "not val" is ~Truthy(val).
Truthy(val) ==
    CASE val.t = "none" -> FALSE
      [] val.t = "bool" -> val.v
      [] val.t = "num" -> val.v # 0
      [] val.t = "str" -> val.v # ""
      [] val.t = "list" -> Len(val.v) > 0
      [] val.t = "map" -> DOMAIN val.v # {}
      [] OTHER -> TRUE

\* val == 0 in Python: the numbers equal to zero, False among them.
EqualsZero(val) ==
    \/ val.t = "num" /\ val.v = 0
    \/ val.t = "bool" /\ val.v = FALSE

Digit(d) == SubSeq("0123456789", d + 1, d + 1)

RECURSIVE NatStr(_)
NatStr(n) == IF n < 10 THEN Digit(n) ELSE NatStr(n \div 10) \o Digit(n % 10)

IntStr(n) == IF n < 0 THEN "-" \o NatStr(-n) ELSE NatStr(n)

\* repr() of the values that can stand in a list or a dictionary
\* (strings without quotes or backslashes, dictionaries with one key at most).
RECURSIVE Repr(_)
RECURSIVE ReprItems(_, _)
ReprItems(xs, i) ==
    IF i > Len(xs) THEN ""
    ELSE (IF i > 1 THEN ", " ELSE "") \o Repr(xs[i]) \o ReprItems(xs, i + 1)

Repr(val) ==
    CASE val.t = "none" -> "None"
      [] val.t = "bool" -> IF val.v THEN "True" ELSE "False"
      [] val.t = "num" -> IntStr(val.v)
      [] val.t = "str" -> "'" \o val.v \o "'"
      [] val.t = "list" -> "[" \o ReprItems(val.v, 1) \o "]"
      [] val.t = "map" ->
           IF DOMAIN val.v = {} THEN "{}"
           ELSE LET k == CHOOSE k \in DOMAIN val.v : TRUE
                IN "{'" \o k \o "': " \o Repr(val.v[k]) \o "}"
      [] OTHER -> "<function>"

\* str(val)
str(val) == IF val.t = "str" THEN val.v ELSE Repr(val)

\* Calling a callable with the list args of arguments: the text it returns,
\* or a raised error (a TypeError when the argument count is wrong).
Invoke(fn, args) ==
    IF fn.raises \/ Len(args) # fn.arity THEN [ok |-> FALSE, text |-> ""]
    ELSE [ok |-> TRUE,
          text |-> fn.pre \o (IF fn.echo /\ Len(args) = 1 THEN args[1] ELSE "") \o fn.post]

(***************************************************************************)
(* The context stack (pystache.context.Context): the innermost scope is    *)
(* the last element of the sequence.                                       *)
(***************************************************************************)
\* The position of the first "." at or after i, Len(name) when there is none.
Dot(name, i) ==
    LET S == {j \in i..(Len(name) - 1) : At(name, j) = "."}
    IN IF S = {} THEN Len(name) ELSE SetMin(S)

\* The successive map-key navigations for the segments of name from i on.
RECURSIVE Navigate(_, _, _)
Navigate(val, name, i) ==
    IF i > Len(name) THEN val
    ELSE LET j == Dot(name, i)
             key == Slice(name, i, j)
         IN IF val.t = "map" /\ key \in DOMAIN val.v
            THEN Navigate(val.v[key], name, j + 1)
            ELSE None

top(ctx) == ctx[Len(ctx)]

push(ctx, val) == Append(ctx, val)

pop(ctx) == SubSeq(ctx, 1, Len(ctx) - 1)

\* context.get(name): None when unresolved.
get(ctx, name) ==
    IF name = "." THEN top(ctx)
    ELSE LET head == Slice(name, 0, Dot(name, 0))
             S == {i \in 1..Len(ctx) : ctx[i].t = "map" /\ head \in DOMAIN ctx[i].v}
         IN IF S = {} THEN None
            ELSE Navigate(ctx[SetMax(S)].v[head], name, Dot(name, 0) + 1)

(***************************************************************************)
(* The parser: Template.parse_to_tree and Template._handle_match.          *)
(* A parse tree is a sequence of items: literal text and tag functions.    *)
(***************************************************************************)
Lit(s) == [k |-> "lit", s |-> s]

\* name.split(): the whitespace-separated words of name.
RECURSIVE split(_)
split(name) ==
    LET n == Run(name, 0, Space)
        rest == From(name, n)
        w == SetMin({j \in 0..Len(rest) : j = Len(rest) \/ At(rest, j) \in Space})
    IN IF rest = "" THEN <<>>
       ELSE <<Slice(rest, 0, w)>> \o split(From(rest, w))

RECURSIVE parse_to_tree(_, _, _, _)
RECURSIVE ParseLoop(_, _, _, _, _, _)
RECURSIVE handle_match(_, _, _, _, _, _)
RECURSIVE Resume(_, _, _)

\* section with the parse resumed one character after the closing tag.
SectionSkip(parse_tree, tag, name, e) ==
    IF e.kind = "eos"
    THEN [kind |-> "index",
          tree |-> Append(parse_tree,
                      [k |-> IF tag = "#" THEN "section" ELSE "inverse",
                       name |-> name, parse_tree |-> e.tree,
                       template |-> e.template, delims |-> <<e.otag, e.ctag>>]),
          index |-> e.position + 1, otag |-> e.otag, ctag |-> e.ctag]
    ELSE [kind |-> "err"]

\* The "#" and "^" branch of _handle_match once the recursive parse_to_tree
\* has ended with e: only a raised EndOfSection binds bufr and tmpl; the tag
\* function gets the delimiters the Template object has by then.
section(parse_tree, tag, name, e) ==
    IF e.kind = "eos"
    THEN [kind |-> "index",
          tree |-> Append(parse_tree,
                      [k |-> IF tag = "#" THEN "section" ELSE "inverse",
                       name |-> name, parse_tree |-> e.tree,
                       template |-> e.template, delims |-> <<e.otag, e.ctag>>]),
          index |-> e.position, otag |-> e.otag, ctag |-> e.ctag]
    ELSE [kind |-> "err"]

\* _handle_match: m is the match, parse_tree the list under construction.
\* The outcome is the index to resume at (kind "index"), a raised
\* EndOfSection (kind "eos") or another exception (kind "err"); otag and
\* ctag are the delimiters of the Template object afterwards.
handle_match(t, parse_tree, m, start_index, otag, ctag) ==
    LET tree1 == Append(parse_tree, Lit(m.content))
        did_tag_begin_line ==
            m.match_index = 0 \/ At(t, m.match_index - 1) \in END_OF_LINE_CHARACTERS
        did_tag_end_line ==
            m.end_index = Len(t) \/ At(t, m.end_index) \in END_OF_LINE_CHARACTERS
        is_tag_interpolating == m.tag \in {"", "&", "{"}
        standalone == did_tag_begin_line /\ did_tag_end_line /\ ~is_tag_interpolating
        end1 == IF m.end_index < Len(t) /\ At(t, m.end_index) = "\r"
                THEN m.end_index + 1 ELSE m.end_index
        end2 == IF end1 < Len(t) /\ At(t, end1) = "\n" THEN end1 + 1 ELSE end1
        end_index == IF standalone THEN end2 ELSE m.end_index
        keep == ~standalone /\ m.whitespace # ""
        tree2 == IF keep THEN Append(tree1, Lit(m.whitespace)) ELSE tree1
        match_index == IF keep THEN m.match_index + Len(m.whitespace) ELSE m.match_index
        whitespace == IF keep THEN "" ELSE m.whitespace
        name == m.name
        go(tree, index, o, c) ==
            [kind |-> "index", tree |-> tree, index |-> index, otag |-> o, ctag |-> c]
    IN CASE m.tag = "!" -> go(tree2, end_index, otag, ctag)
         [] m.tag = "=" ->
              LET ds == split(name)
              IN IF Len(ds) # 2 THEN [kind |-> "err"]
                 ELSE go(tree2, end_index, ds[1], ds[2])
         [] m.tag = ">" ->
              go(Append(tree2, [k |-> "partial", name |-> name, indentation |-> whitespace]),
                 end_index, otag, ctag)
         [] m.tag \in {"#", "^"} ->
              section(tree2, m.tag, name, parse_to_tree(t, end_index, otag, ctag))
         [] m.tag \in {"{", "&"} ->
              go(Append(tree2, [k |-> "literal", name |-> name]), end_index, otag, ctag)
         [] m.tag = "" ->
              go(Append(tree2, [k |-> "escape", name |-> name]), end_index, otag, ctag)
         [] m.tag = "/" ->
              [kind |-> "eos", tree |-> tree2, template |-> Slice(t, start_index, match_index),
               position |-> end_index, otag |-> otag, ctag |-> ctag]
         [] OTHER -> [kind |-> "err"]

\* The while loop of parse_to_tree.
Resume(t, start_index, r) ==
    IF r.kind = "index"
    THEN ParseLoop(t, r.tree, start_index, r.index, r.otag, r.ctag)
    ELSE r

Matched(t, parse_tree, start_index, index, otag, ctag, m) ==
    IF ~m.found
    THEN [kind |-> "tree", tree |-> Append(parse_tree, Lit(From(t, index))),
          otag |-> otag, ctag |-> ctag]
    ELSE Resume(t, start_index, handle_match(t, parse_tree, m, start_index, otag, ctag))

ParseLoop(t, parse_tree, start_index, index, otag, ctag) ==
    Matched(t, parse_tree, start_index, index, otag, ctag, Search(t, index, otag, ctag))

parse_to_tree(t, index, otag, ctag) == ParseLoop(t, <<>>, index, index, otag, ctag)

\* parse_string_to_tree: a fresh Template with the delimiters delims.
parse_string_to_tree(template_string, delims) ==
    parse_to_tree(template_string, 0, delims[1], delims[2])

(***************************************************************************)
(* Text conversions of the tag functions.                                  *)
(***************************************************************************)
\* text.replace(old, new) for a one-character old.
RECURSIVE replace(_, _, _)
replace(text, old, new) ==
    IF text = "" THEN ""
    ELSE (IF At(text, 0) = old THEN new ELSE At(text, 0)) \o replace(From(text, 1), old, new)

\* escape with "&" replaced last.
EscapeAmpLast(text) ==
    replace(replace(replace(replace(text, "<", "&lt;"), ">", "&gt;"), "\"", "&quot;"),
            "&", "&amp;")

\* Template.escape: cgi.escape(text, True).
escape(text) ==
    replace(replace(replace(replace(text, "&", "&amp;"), "<", "&lt;"), ">", "&gt;"),
            "\"", "&quot;")

\* Template.to_unicode
to_unicode(text) == text

\* re.sub(nonblank, indentation + r'\1', template) with nonblank = ^(.) under
\* re.M: ^ matches at the start and after each "\n", "." any character but "\n".
RECURSIVE IndentFrom(_, _, _)
IndentFrom(text, indentation, p) ==
    IF p >= Len(text) THEN ""
    ELSE (IF (p = 0 \/ At(text, p - 1) = "\n") /\ At(text, p) # "\n"
          THEN indentation ELSE "")
         \o At(text, p) \o IndentFrom(text, indentation, p + 1)

Indent(text, indentation) == IndentFrom(text, indentation, 0)

(***************************************************************************)
(* The renderer as a machine.  frames is the call stack of the render: a   *)
(* "tree" frame is a render_parse_tree in progress (i the next item, parts *)
(* the text so far), a "section" frame the for loop of a section function  *)
(* (j the next element).  log records every parse_string_to_tree call.     *)
(***************************************************************************)
\* The nesting depth at which the interpreter raises "maximum recursion depth
\* exceeded".
RecursionLimit == 6

TreeFrame(tree) == [kind |-> "tree", tree |-> tree, i |-> 1, parts |-> ""]

SectionFrame(data, tree) ==
    [kind |-> "section", data |-> data, j |-> 1, parts |-> "", tree |-> tree]

Top == frames[Len(frames)]

Running == status = "running" /\ frames # <<>>

\* The item render_parse_tree is about to convert.
Item == Top.tree[Top.i]

AtItem(k) ==
    /\ Running
    /\ Top.kind = "tree"
    /\ Top.i <= Len(Top.tree)
    /\ Item.k = k

\* An exception leaves the render: nothing catches it, and no handler runs.
Raise ==
    /\ status' = "error"
    /\ frames' = <<>>
    /\ result' = ""

\* The current tree frame gets the text of its item and moves on.
Emit(s) ==
    /\ frames' = [frames EXCEPT ![Len(frames)] =
                     [@ EXCEPT !.parts = @ \o s, !.i = @ + 1]]
    /\ UNCHANGED <<status, result>>

\* A nested call that the interpreter does not stop at its recursion limit.
EnterUnchecked(fs, frame) ==
    /\ frames' = Append(fs, frame)
    /\ UNCHANGED <<status, result>>

\* A nested call.
Enter(fs, frame) ==
    IF Len(fs) >= RecursionLimit THEN Raise
    ELSE /\ frames' = Append(fs, frame)
         /\ UNCHANGED <<status, result>>

\* render_parse_tree on the outcome p of a parse: a parse that raised ends
\* the render.
RenderParsed(p) ==
    IF p.kind # "tree" THEN Raise ELSE Enter(frames, TreeFrame(p.tree))

\* render_template: parse with delims, then render_parse_tree.
render_template(text, delims) == RenderParsed(parse_string_to_tree(text, delims))

Parsed(site, text, delims) == [site |-> site, text |-> text, delims |-> delims]

\* self.get_partial(name): the partial loader.  A name it does not know
\* makes it raise (Renderer's loader) or return None (Template.get_partial).
get_partial(name) ==
    IF name \in DOMAIN partials THEN [found |-> TRUE, text |-> partials[name]]
    ELSE [found |-> FALSE, text |-> ""]

Started(p) ==
    IF p.kind # "tree" THEN Raise
    ELSE /\ frames' = <<TreeFrame(p.tree)>>
         /\ status' = "running"
         /\ result' = ""

\* RenderEngine.render
Render ==
    /\ status = "init"
    /\ Started(parse_string_to_tree(template, default_delims))
    /\ log' = Append(log, Parsed("render", template, default_delims))
    /\ UNCHANGED <<template, partials, stack, entry>>

\* call() on a string of the parse tree.
Literal ==
    /\ AtItem("lit")
    /\ Emit(Item.s)
    /\ UNCHANGED <<template, partials, stack, entry, log>>

\* _get_string_value up to the callable test: the value to convert.
string_value(ctx, tag_name) ==
    LET val == get(ctx, tag_name)
    IN IF ~Truthy(val) /\ ~EqualsZero(val)
       THEN IF tag_name # "." THEN Str("") ELSE top(ctx)
       ELSE val

\* The function of escape_tag_function (escaped) / literal_tag_function on
\* the value val; a callable value is called and its text rendered
\* as a template, the conversion follows in ReturnToTag.
\* Called without the rendering of the text as a template.
CalledVerbatim(r) ==
    /\ IF ~r.ok THEN Raise ELSE Emit(r.text)
    /\ log' = log

Called(r) ==
    /\ IF ~r.ok THEN Raise ELSE render_template(r.text, default_delims)
    /\ log' = IF r.ok THEN Append(log, Parsed(Item.k, r.text, default_delims)) ELSE log

Interpolate(val, escaped) ==
    IF callable(val) THEN Called(Invoke(val, <<>>))
    ELSE /\ Emit(IF escaped THEN escape(str(val)) ELSE to_unicode(str(val)))
         /\ log' = log

EscapeTag ==
    /\ AtItem("escape")
    /\ Interpolate(string_value(stack, Item.name), TRUE)
    /\ UNCHANGED <<template, partials, stack, entry>>

LiteralTag ==
    /\ AtItem("literal")
    /\ Interpolate(string_value(stack, Item.name), FALSE)
    /\ UNCHANGED <<template, partials, stack, entry>>

\* Indented with a partial that is not found taken as the empty template.
IndentedOrEmpty(found, text) ==
    /\ render_template(IF found THEN text ELSE "", default_delims)
    /\ log' = IF found THEN Append(log, Parsed("partial", text, default_delims)) ELSE log

\* Indented with the partial parsed with the delimiters in force at the
\* partial tag.
IndentedInherit(found, text) ==
    /\ IF ~found THEN Raise
       ELSE render_template(text, IF StartsAt(template, 0, "{{=| |=}}")
                                  THEN <<"|", "|">> ELSE default_delims)
    /\ log' = IF found THEN Append(log, Parsed("partial", text, default_delims)) ELSE log

Indented(found, text) ==
    /\ IF ~found THEN Raise ELSE render_template(text, default_delims)
    /\ log' = IF found THEN Append(log, Parsed("partial", text, default_delims)) ELSE log

Loaded(p) == Indented(p.found, Indent(p.text, Item.indentation))

\* The function of partial_tag_function.
PartialTag ==
    /\ AtItem("partial")
    /\ Loaded(get_partial(Item.name))
    /\ UNCHANGED <<template, partials, stack, entry>>

SectionParsed(data, ok, p) ==
    IF ~ok \/ p.kind # "tree" THEN Raise
    ELSE Enter(frames, SectionFrame(<<data>>, p.tree))

SectionCalled(data, r) ==
    /\ SectionParsed(data, r.ok, parse_string_to_tree(r.text, Item.delims))
    /\ log' = IF r.ok THEN Append(log, Parsed("section", r.text, Item.delims)) ELSE log

\* Section with a list treated like any other value: one turn of the loop.
SectionOnce(data) ==
    IF ~Truthy(data)
    THEN /\ Enter(frames, SectionFrame(<<>>, Item.parse_tree))
         /\ log' = log
    ELSE IF callable(data)
    THEN SectionCalled(data, Invoke(data, <<Item.template>>))
    ELSE /\ Enter(frames, SectionFrame(<<data>>, Item.parse_tree))
         /\ log' = log

Section(data) ==
    IF ~Truthy(data)
    THEN /\ Enter(frames, SectionFrame(<<>>, Item.parse_tree))
         /\ log' = log
    ELSE IF callable(data)
    THEN SectionCalled(data, Invoke(data, <<Item.template>>))
    ELSE /\ Enter(frames, SectionFrame(IF data.t = "list" THEN data.v ELSE <<data>>,
                                       Item.parse_tree))
         /\ log' = log

\* The function of section_tag_function up to its for loop.
SectionTag ==
    /\ AtItem("section")
    /\ Section(get(stack, Item.name))
    /\ UNCHANGED <<template, partials, stack, entry>>

\* One turn of the for loop: context.push(element), then render_parse_tree.
SectionPush ==
    /\ Running
    /\ Top.kind = "section"
    /\ Top.j <= Len(Top.data)
    /\ stack' = push(stack, Top.data[Top.j])
    /\ Enter(frames, TreeFrame(Top.tree))
    /\ UNCHANGED <<template, partials, entry, log>>

\* SectionPop without context.pop().
SectionPopNone ==
    /\ Running
    /\ Len(frames) >= 2
    /\ Top.kind = "tree"
    /\ Top.i > Len(Top.tree)
    /\ frames[Len(frames) - 1].kind = "section"
    /\ frames' = [SubSeq(frames, 1, Len(frames) - 1) EXCEPT ![Len(frames) - 1] =
                     [@ EXCEPT !.parts = @ \o Top.parts, !.j = @ + 1]]
    /\ UNCHANGED <<template, partials, stack, status, result, entry, log>>

\* render_parse_tree returns into the for loop: parts.append, context.pop().
SectionPop ==
    /\ Running
    /\ Len(frames) >= 2
    /\ Top.kind = "tree"
    /\ Top.i > Len(Top.tree)
    /\ frames[Len(frames) - 1].kind = "section"
    /\ stack' = pop(stack)
    /\ frames' = [SubSeq(frames, 1, Len(frames) - 1) EXCEPT ![Len(frames) - 1] =
                     [@ EXCEPT !.parts = @ \o Top.parts, !.j = @ + 1]]
    /\ UNCHANGED <<template, partials, status, result, entry, log>>

\* The for loop is over: the section function returns ''.join(parts).
SectionEnd ==
    /\ Running
    /\ Len(frames) >= 2
    /\ Top.kind = "section"
    /\ Top.j > Len(Top.data)
    /\ frames' = [SubSeq(frames, 1, Len(frames) - 1) EXCEPT ![Len(frames) - 1] =
                     [@ EXCEPT !.parts = @ \o Top.parts, !.i = @ + 1]]
    /\ UNCHANGED <<template, partials, stack, status, result, entry, log>>

\* inverseTag without its test of data.
InverseAlways ==
    /\ AtItem("inverse")
    /\ Enter(frames, TreeFrame(Item.parse_tree))
    /\ UNCHANGED <<template, partials, stack, entry, log>>

\* The function of inverseTag.
InverseTag ==
    /\ AtItem("inverse")
    /\ IF Truthy(get(stack, Item.name)) THEN Emit("")
       ELSE Enter(frames, TreeFrame(Item.parse_tree))
    /\ UNCHANGED <<template, partials, stack, entry, log>>

\* render_parse_tree returns into the tag function that called it: an
\* interpolation converts the text, a partial and an inverted section
\* return it as it is.
ReturnToTag ==
    /\ Running
    /\ Len(frames) >= 2
    /\ Top.kind = "tree"
    /\ Top.i > Len(Top.tree)
    /\ frames[Len(frames) - 1].kind = "tree"
    /\ LET caller == frames[Len(frames) - 1]
           tag == caller.tree[caller.i]
           s == CASE tag.k = "escape" -> escape(Top.parts)
                  [] tag.k = "literal" -> to_unicode(Top.parts)
                  [] OTHER -> Top.parts
       IN frames' = [SubSeq(frames, 1, Len(frames) - 1) EXCEPT ![Len(frames) - 1] =
                        [@ EXCEPT !.parts = @ \o s, !.i = @ + 1]]
    /\ UNCHANGED <<template, partials, stack, status, result, entry, log>>

\* The outermost render_parse_tree returns: render is over.
Finish ==
    /\ Running
    /\ Len(frames) = 1
    /\ Top.kind = "tree"
    /\ Top.i > Len(Top.tree)
    /\ status' = "done"
    /\ result' = Top.parts
    /\ frames' = <<>>
    /\ UNCHANGED <<template, partials, stack, entry, log>>

(***************************************************************************)
(* The renders explored: a template, the value of x in the context and the *)
(* text of the partial p.                                                  *)
(***************************************************************************)
MaxListLen == 2

MaxTags == 3

Elements == {Num(0), Num(7), Str("a"), None}

RECURSIVE SeqsOf(_, _)
SeqsOf(S, n) ==
    IF n = 0 THEN {<<>>}
    ELSE SeqsOf(S, n - 1) \cup {Append(xs, e) : xs \in SeqsOf(S, n - 1), e \in S}

Lists == {List(xs) : xs \in SeqsOf(Elements, MaxListLen)}

\* Callables for an interpolation (no argument) and for a section (the raw
\* text of the section), and one that raises.
Lambdas ==
    {Lambda(0, "{{h}}<%h%>", FALSE, "", FALSE),
     Lambda(0, "{{#h}}", FALSE, "", FALSE),
     Lambda(1, "[", TRUE, "]{{h}}|h|", FALSE),
     Lambda(1, "", TRUE, "", FALSE),
     Lambda(0, "", FALSE, "", TRUE),
     Lambda(0, "{{x}}", FALSE, "", FALSE),
     Lambda(1, "{{#x}}", TRUE, "{{/x}}", FALSE)}

Scalars ==
    {None, Bool(FALSE), Bool(TRUE), Num(0), Num(1), Num(12), Str(""), Str("a<b"),
     Str("{{h}}"), Str("'\"&<>&amp;'"), Map(<<>>), Map([h |-> Str("in")])}

\* Templates rendered with every value of x.
ValueTemplates ==
    {"{{x}}", "{{{x}}}", "{{&x}}", "{{=<% %>=}}<%x%>", "{{=<% %>=}}<%&x%>",
     "{{#x}}A{{/x}}", "{{^x}}A{{/x}}", "{{#x}}A{{/x}}{{^x}}A{{/x}}",
     "{{#x}}[{{.}}]{{/x}}", "{{#x}}{{h}}{{/x}}", "{{#x}}<{{#x}}{{.}}{{/x}}>{{/x}}",
     "{{#x}}{{>missing}}{{/x}}", "{{#x}}{{boom}}{{/x}}",
     "{{=| |=}}|#x|h|/x|", "{{#x}}{{=| |=}}h|/x|", "{{#x}}h{{/x}}{{=| |=}}|h|",
     "[{{nope}}{{{nope}}}{{&x.nope}}]", "{{#x}}{{>p}}{{^b}}I{{/b}}{{/x}}"}

\* Templates rendered with every list.
ListTemplates ==
    {"{{#x}}A{{/x}}", "{{^x}}A{{/x}}", "{{#x}}A{{/x}}{{^x}}A{{/x}}",
     "{{#x}}[{{.}}]{{/x}}", "{{#x}}<{{#x}}{{.}}{{/x}}>{{/x}}", "{{#x}}{{boom}}{{/x}}"}

\* One tag on a line, with what stands before and after it on the line.
Before == {"", " ", "a", "a ", "a\n", "a\n \t", "a\r", "\r\n  "}

After == {"", "\n", "\r\n", "\r", " ", " \n", "\t\r\nb", "b", "\nb", "\r\n\nb"}

LineTags == {"{{!c}}", "{{x}}", "{{{x}}}", "{{&x}}", "{{=| |=}}"}

LineTemplates == {pre \o tag \o post : pre \in Before, tag \in LineTags, post \in After}

\* A partial tag on a line, and the texts of the partial.
PartialTemplates ==
    {"{{>p}}", " {{>p}}", "\t {{>p}}\n", "  {{>p}}\r\nb", "a {{>p}}", "  {{>p}} ",
     "a{{>missing}}b", "{{=| |=}}|>p||h|{{h}}", "{{>p}}{{h}}|h|"}

PartialTexts ==
    {"", "P", "P\nQ", "P\n\nQ\n", "P\r\nQ", "P\r\n\r\nQ\r\n", "P\rQ", "\nP",
     "Hi,\n{{h}}\n", "{{=| |=}}|h|{{h}}", "{{>p}}"}

\* Section tags that open and close: up to MaxTags of these in a row.
Tags == {"{{#a}}", "{{^b}}", "{{/a}}", "{{/b}}", "x"}

RECURSIVE Join(_)
Join(ts) == IF ts = <<>> THEN "" ELSE Head(ts) \o Join(Tail(ts))

TagTemplates == {Join(ts) : ts \in SeqsOf(Tags, MaxTags)}

\* A section around a body, with what stands before the opening tag and
\* after the closing tag.
BodyBefore == {"", " ", "a "}

Bodies == {"b", " b ", "\nb\n", "\r\n b \r\n  ", "\n", "\n  ", "\rb\r\t"}

BodyAfter == {"", "\n", " c"}

BodyTemplates ==
    {pre \o "{{#x}}" \o body \o "{{/x}}" \o post :
        pre \in BodyBefore, body \in Bodies, post \in BodyAfter}

\* The callables a section of BodyTemplates is rendered with.
BodyLambdas == {Lambda(1, "[", TRUE, "]{{h}}|h|", FALSE), Lambda(1, "", TRUE, "", FALSE)}

\* Templates of up to MaxLines lines whose only tags are comments alone on
\* their line: a line without terminator is the last one.
MaxLines == 3

Lines ==
    {"a\n", " b \r\n", "{{!c}}\n", "  {{!c}}\r\n", "\t{{!c}}\r", " {{!c}} \n", "{{!c}}", "z"}

Terminated(line) == At(line, Len(line) - 1) \in END_OF_LINE_CHARACTERS

LineSeqs ==
    {ls \in SeqsOf(Lines, MaxLines) :
        \A i \in 1..(Len(ls) - 1) : Terminated(ls[i])}

CommentTemplates == {Join(ls) : ls \in LineSeqs}

Root(v) ==
    Map([x |-> v, h |-> Str("<&>"), a |-> Bool(TRUE), b |-> Bool(FALSE),
         boom |-> Lambda(0, "", FALSE, "", TRUE)])

DefaultPartials == [n \in {"p"} |-> "Hi,\n{{h}}\n"]

\* The value of x in the outermost scope.
X == stack[1].v["x"]

Init ==
    /\ \/ /\ template \in ValueTemplates
          /\ \E v \in Scalars \cup Lambdas : stack = <<Root(v)>>
          /\ partials = DefaultPartials
       \/ /\ template \in ListTemplates
          /\ \E v \in Lists : stack = <<Root(v)>>
          /\ partials = DefaultPartials
       \/ /\ template \in LineTemplates \cup TagTemplates
          /\ stack = <<Root(Str("v"))>>
          /\ partials = DefaultPartials
       \/ /\ template \in BodyTemplates
          /\ \E v \in BodyLambdas : stack = <<Root(v)>>
          /\ partials = DefaultPartials
       \/ /\ template \in CommentTemplates
          /\ stack = <<Root(Str("v"))>>
          /\ partials = DefaultPartials
       \/ /\ template \in PartialTemplates
          /\ stack = <<Root(Str("v"))>>
          /\ \E text \in PartialTexts : partials = [n \in {"p"} |-> text]
    /\ frames = <<>>
    /\ status = "init"
    /\ result = ""
    /\ entry = 1
    /\ log = <<>>

Next ==
    \/ Render
    \/ Literal
    \/ EscapeTag
    \/ LiteralTag
    \/ PartialTag
    \/ SectionTag
    \/ SectionPush
    \/ SectionPop
    \/ SectionEnd
    \/ InverseTag
    \/ ReturnToTag
    \/ Finish

Spec == Init /\ [][Next]_vars

(***************************************************************************)
(* Properties.                                                             *)
(***************************************************************************)
RECURSIVE Rep(_, _)
Rep(text, n) == IF n = 0 THEN "" ELSE text \o Rep(text, n - 1)

\* What {{.}} emits for an element of Elements.
Shown(e) == IF e.t = "none" THEN "None" ELSE IF e.t = "num" THEN IntStr(e.v) ELSE e.v

\* pre \o Shown(e) \o post for the elements of xs from i on, in order.
RECURSIVE Each(_, _, _, _)
Each(xs, i, pre, post) ==
    IF i > Len(xs) THEN "" ELSE pre \o Shown(xs[i]) \o post \o Each(xs, i + 1, pre, post)

IsList(v, n) == v.t = "list" /\ Len(v.v) >= n

\* C1: a section whose name resolves to a list of n >= 1 elements renders
\* its body n times, in list order, and while the body is rendered for an
\* element that element is the innermost scope.
C1_SectionOverList ==
    /\ (Len(frames) >= 2 /\ frames[Len(frames) - 1].kind = "section")
          => top(stack) = frames[Len(frames) - 1].data[frames[Len(frames) - 1].j]
    /\ (IsList(X, 1) /\ template \in {"{{#x}}A{{/x}}", "{{#x}}[{{.}}]{{/x}}",
                                       "{{#x}}<{{#x}}{{.}}{{/x}}>{{/x}}"})
          => /\ status # "error"
             /\ status = "done" =>
                  result = CASE template = "{{#x}}A{{/x}}" -> Rep("A", Len(X.v))
                             [] template = "{{#x}}[{{.}}]{{/x}}" -> Each(X.v, 1, "[", "]")
                             [] OTHER -> Rep("<" \o Each(X.v, 1, "", "") \o ">", Len(X.v))

C1_Witness ==
    /\ status = "done"
    /\ template = "{{#x}}[{{.}}]{{/x}}"
    /\ IsList(X, 2)
    /\ X.v[1] = Num(0) /\ X.v[2] = Str("a")
    /\ SubSeq(result, 1, 6) = "[0][a]"

\* C2: when rendering a section body fails after the section pushed a
\* scope, the scope is popped: after a failed render the context stack is as
\* deep as at entry.
C2_PoppedOnFailure == status = "error" => Len(stack) = entry

\* C3: zero is truthy at every site: {{x}} emits "0", a section renders its
\* body once with 0 as the innermost scope, an inverted section renders
\* nothing.
C3_ZeroIsTruthy ==
    (status = "done" /\ X = Num(0)) =>
        /\ template = "{{x}}" => result = "0"
        /\ template = "{{#x}}A{{/x}}" => result = "A"
        /\ template = "{{#x}}[{{.}}]{{/x}}" => result = "[0]"
        /\ template = "{{^x}}A{{/x}}" => result = ""

Dual == "{{#x}}A{{/x}}{{^x}}A{{/x}}"

\* C4 as stated: for every value of x the section and the inverted section
\* together emit exactly one copy of A.
C4_ExactlyOneCopy == (template = Dual /\ status = "done") => result = "A"

\* C4 amended: together they emit one copy of A for every value of x that is
\* neither a list of two or more elements nor a callable; a list of n >= 1
\* elements makes the section emit n copies and the inverted section none; a
\* callable makes the section emit the rendering of the text it returns and
\* the inverted section nothing.
C4_Copies ==
    template = Dual =>
        /\ ~callable(X) => status # "error"
        /\ (status = "done" /\ ~callable(X)) =>
              result = IF IsList(X, 2) THEN Rep("A", Len(X.v)) ELSE "A"
        /\ (status # "init" /\ X = Lambda(1, "", TRUE, "", FALSE)) =>
              (status = "done" => result = "A")
        /\ (status # "init" /\ X = Lambda(1, "[", TRUE, "]{{h}}|h|", FALSE)) =>
              (status = "done" => result = "[A]&lt;&amp;&gt;|h|")

C4_Witness ==
    /\ status = "done"
    /\ template = Dual
    /\ IsList(X, 2)
    /\ result = Rep("A", Len(X.v))

\* The name a section tag opens or closes.
Named(tok) == Slice(tok, 3, Len(tok) - 2)

\* The tags ts are well nested under the open sections `open` (innermost
\* last): every closing tag closes the innermost open section and has its
\* name, and no section is left open at the end.
RECURSIVE WellNested(_, _)
WellNested(ts, open) ==
    IF ts = <<>> THEN open = <<>>
    ELSE IF At(Head(ts), 2) \in {"#", "^"}
         THEN WellNested(Tail(ts), Append(open, Named(Head(ts))))
    ELSE IF At(Head(ts), 2) = "/"
         THEN /\ open # <<>>
              /\ open[Len(open)] = Named(Head(ts))
              /\ WellNested(Tail(ts), SubSeq(open, 1, Len(open) - 1))
    ELSE WellNested(Tail(ts), open)

Balanced(text) == \E ts \in SeqsOf(Tags, MaxTags) : Join(ts) = text /\ WellNested(ts, <<>>)

\* C5: parsing succeeds only if every opening section tag is closed by a
\* later closing tag of the same name: a closing tag of another name, a
\* closing tag with no open section, or the end of the template before the
\* closing tag makes the parse fail.
C5_ClosingChecked ==
    (template \in TagTemplates /\ status \in {"running", "done"}) => Balanced(template)

RECURSIVE StripBlanksEnd(_)
StripBlanksEnd(s) ==
    IF At(s, Len(s) - 1) \in Blank THEN StripBlanksEnd(Slice(s, 0, Len(s) - 1)) ELSE s

RECURSIVE StripBlanksStart(_)
StripBlanksStart(s) == IF At(s, 0) \in Blank THEN StripBlanksStart(From(s, 1)) ELSE s

\* s without the line terminator ("\r\n", "\n" or "\r") it starts with.
DropTerminator(s) ==
    IF StartsAt(s, 0, "\r\n") THEN From(s, 2)
    ELSE IF At(s, 0) \in END_OF_LINE_CHARACTERS THEN From(s, 1)
    ELSE s

\* Only blanks lie between the previous line terminator (or the start of the
\* template) and the tag, and between the tag and the next line terminator
\* (or the end of the template).
AloneOnLine(pre, post) ==
    /\ StripBlanksEnd(pre) = "" \/ At(StripBlanksEnd(pre), Len(StripBlanksEnd(pre)) - 1) \in END_OF_LINE_CHARACTERS
    /\ StripBlanksStart(post) = "" \/ At(StripBlanksStart(post), 0) \in END_OF_LINE_CHARACTERS

\* What a tag of LineTags emits where x is "v".
TagOutput(tag) == IF tag \in {"{{x}}", "{{{x}}}", "{{&x}}"} THEN "v" ELSE ""

\* The rendering of pre \o tag \o post under the standalone rule.
LineOutput(pre, tag, post) ==
    IF TagOutput(tag) = "" /\ AloneOnLine(pre, post)
    THEN StripBlanksEnd(pre) \o DropTerminator(StripBlanksStart(post))
    ELSE pre \o TagOutput(tag) \o post

\* C6: a tag is standalone exactly when it is not an interpolation and only
\* blanks lie around it on its line; a standalone tag contributes neither
\* those blanks nor the following line terminator to the output, and the
\* blanks before any other tag are kept.
C6_Standalone ==
    (template \in LineTemplates /\ X = Str("v") /\ status = "done") =>
        \E pre \in Before, tag \in LineTags, post \in After :
            template = pre \o tag \o post /\ result = LineOutput(pre, tag, post)

\* text from position p on, with w before the first character of every
\* non-empty line, the lines ending at "\n", "\r\n" or "\r".
RECURSIVE LinesFrom(_, _, _)
LinesFrom(text, w, p) ==
    IF p >= Len(text) THEN ""
    ELSE (IF /\ \/ p = 0
                \/ At(text, p - 1) = "\n"
                \/ At(text, p - 1) = "\r" /\ At(text, p) # "\n"
             /\ At(text, p) \notin END_OF_LINE_CHARACTERS
          THEN w ELSE "")
         \o At(text, p) \o LinesFrom(text, w, p + 1)

\* The blanks before the partial tag where the tag is standalone, "" where
\* it is not.
TagIndent ==
    [t \in {"{{>p}}", " {{>p}}", "\t {{>p}}\n", "  {{>p}}\r\nb", "a {{>p}}"} |->
        CASE t = " {{>p}}" -> " "
          [] t = "\t {{>p}}\n" -> "\t "
          [] t = "  {{>p}}\r\nb" -> "  "
          [] OTHER -> ""]

\* C7: the text of a partial is rendered with the blanks before the
\* standalone partial tag prepended to every non-empty line, for each of
\* the line terminators, and to no empty line; nothing is prepended for a
\* tag that is not standalone.
C7_PartialIndentation ==
    template \in DOMAIN TagIndent =>
        \A i \in DOMAIN log :
            log[i].site = "partial" =>
                log[i].text = LinesFrom(partials["p"], TagIndent[template], 0)

\* The renderer is at a partial tag whose name the loader does not know.
AtMissingPartial == AtItem("partial") /\ ~get_partial(Item.name).found

Interpolations ==
    {"{{x}}", "{{{x}}}", "{{&x}}", "{{=<% %>=}}<%x%>", "{{=<% %>=}}<%&x%>"}

Escaping == {"{{x}}", "{{=<% %>=}}<%x%>"}

\* C9: an interpolation tag whose name resolves to a callable calls it with
\* no argument, parses the text it returns with the default delimiters
\* whatever delimiters are in force at the tag, renders that against the
\* current context, and only then escapes (an escaped tag) or converts (a
\* literal tag) the result.
C9_InterpolationLambda ==
    (template \in Interpolations /\ callable(X)) =>
        /\ \A i \in DOMAIN log :
              log[i].site \in {"escape", "literal"} =>
                  /\ log[i].delims = default_delims
                  /\ log[i].text = X.pre
        /\ (X.arity # 0 \/ X.raises) => (status # "done" /\ Len(log) <= 1)
        /\ (status # "init" /\ X = Lambda(0, "{{#h}}", FALSE, "", FALSE)) => status # "done"
        /\ (status # "init" /\ X = Lambda(0, "{{h}}<%h%>", FALSE, "", FALSE)) =>
              /\ status # "error"
              /\ status = "done" =>
                    result = IF template \in Escaping
                             THEN "&amp;lt;&amp;amp;&amp;gt;&lt;%h%&gt;"
                             ELSE "&lt;&amp;&gt;<%h%>"

C9_Witness ==
    /\ template = "{{=<% %>=}}<%x%>"
    /\ X = Lambda(0, "{{h}}<%h%>", FALSE, "", FALSE)
    /\ status = "done"
    /\ Len(log) = 2
    /\ log[2] = Parsed("escape", "{{h}}<%h%>", default_delims)
    /\ result = "&amp;lt;&amp;amp;&amp;gt;&lt;%h%&gt;"

\* The delimiters in force at the opening tag of the section of a template of
\* ValueTemplates.
OpeningDelims == IF template = "{{=| |=}}|#x|h|/x|" THEN <<"|", "|">> ELSE default_delims

C11_RawBody ==
    (template \in BodyTemplates /\ AtItem("section")) =>
        \E pre \in BodyBefore, body \in Bodies, post \in BodyAfter :
            /\ template = pre \o "{{#x}}" \o body \o "{{/x}}" \o post
            /\ Item.template = body

(***************************************************************************)
(* The legacy implementation (pystache/template.py), interpolation only.   *)
(* Its parser is that of renderengine.py but for the tag type of the       *)
(* pattern, \W? instead of [!>&/#^]?: the two match alike where every      *)
(* opening delimiter is followed by a word character, "{", "&" or "#", as  *)
(* in all texts of LegacyInit.  Its view is modelled by the context stack. *)
(***************************************************************************)
\* parse(template, view, delims)
parse(text, delims) == parse_string_to_tree(text, delims)

\* call(val, view): a callable of no argument is called, one of an argument
\* is called with template = None, which the callables that use their
\* argument do not accept; None gives '', anything else unicode(val).
call(val) ==
    IF callable(val)
    THEN IF val.arity = 1 /\ ~val.echo THEN Invoke(val, <<"">>) ELSE Invoke(val, <<>>)
    ELSE [ok |-> TRUE, text |-> IF val.t = "none" THEN "" ELSE str(val)]

\* render(template, context) of a tag function: parse, then render_parse_tree.
Fetched(r) ==
    /\ IF ~r.ok THEN Raise ELSE RenderParsed(parse(r.text, default_delims))
    /\ log' = IF r.ok THEN Append(log, Parsed(Item.k, r.text, default_delims)) ELSE log

\* render(template, view) of Template.render
LegacyRender ==
    /\ status = "init"
    /\ Started(parse(template, default_delims))
    /\ log' = Append(log, Parsed("render", template, default_delims))
    /\ UNCHANGED <<template, partials, stack, entry>>

\* The function of literal_tag_function, which escape_tag_function calls
\* too: the value's text is rendered as a template whatever the value is.
LegacyTag ==
    /\ AtItem("escape") \/ AtItem("literal")
    /\ Fetched(call(get(stack, Item.name)))
    /\ UNCHANGED <<template, partials, stack, entry>>

LegacyTemplates == {"{{x}}", "{{{x}}}", "{{&x}}", "a{{x}}b{{h}}", " {{ x }}\n"}

LegacyValues ==
    Scalars \cup {Str("{{x}}"), Str("{{{h}}}"), Str("{{#h}}"),
                  Lambda(0, "{{h}}<%h%>", FALSE, "", FALSE), Lambda(0, "", FALSE, "", TRUE)}

LegacyInit ==
    /\ template \in LegacyTemplates
    /\ \E v \in LegacyValues : stack = <<Root(v)>>
    /\ partials = DefaultPartials
    /\ frames = <<>>
    /\ status = "init"
    /\ result = ""
    /\ entry = 1
    /\ log = <<>>

LegacyNext ==
    \/ LegacyRender
    \/ Literal
    \/ LegacyTag
    \/ ReturnToTag
    \/ Finish

LegacySpec == LegacyInit /\ [][LegacyNext]_vars

\* C12: an interpolation tag whose name resolves to a value that is not
\* callable never parses the value's text as a template: no parse but that
\* of the template itself takes place, the render does not fail, and tag
\* syntax in the value comes out as text.
C12_NoReparse ==
    (template \in {"{{x}}", "{{{x}}}", "{{&x}}"} /\ ~callable(X)) =>
        /\ \A i \in DOMAIN log : log[i].site = "render"
        /\ status # "error"
        /\ (status = "done" /\ X = Str("{{h}}")) => result = "{{h}}"

\* The templates with a tag after the partial tag, and the partials.
LocalTemplates == {"{{>p}}{{h}}|h|", "{{=| |=}}|>p||h|{{h}}"}

LocalPartials == {"P", "Hi,\n{{h}}\n", "{{=| |=}}|h|{{h}}"}

\* C13: a delimiter change inside a partial holds for the rest of that
\* partial only: the tags of the enclosing template after the partial tag
\* are recognised with the delimiters the enclosing template had, and the
\* partial is parsed starting from the default delimiters also where the
\* enclosing template changed them.
C13_DelimiterLocality ==
    (template \in LocalTemplates /\ partials["p"] \in LocalPartials) =>
        /\ status # "error"
        /\ \A i \in DOMAIN log : log[i].delims = default_delims
        /\ status = "done" =>
              result = (CASE partials["p"] = "P" -> "P"
                          [] partials["p"] = "Hi,\n{{h}}\n" -> "Hi,\n&lt;&amp;&gt;\n"
                          [] OTHER -> "&lt;&amp;&gt;{{h}}")
                       \o (IF template = "{{>p}}{{h}}|h|"
                           THEN "&lt;&amp;&gt;|h|" ELSE "&lt;&amp;&gt;{{h}}")

C13_Witness ==
    /\ template = "{{=| |=}}|>p||h|{{h}}"
    /\ partials["p"] = "{{=| |=}}|h|{{h}}"
    /\ status = "done"
    /\ Len(log) = 2
    /\ log[2].site = "partial"
    /\ result = "&lt;&amp;&gt;{{h}}&lt;&amp;&gt;{{h}}"

\* [ \o the text \o ] for every element of xs from i on, None giving no text.
RECURSIVE EachOrEmpty(_, _)
EachOrEmpty(xs, i) ==
    IF i > Len(xs) THEN ""
    ELSE "[" \o (IF xs[i] = None THEN "" ELSE Shown(xs[i])) \o "]" \o EachOrEmpty(xs, i + 1)

\* C14: an interpolation tag whose name resolves to None or to no value
\* emits the empty string, for every name, the implicit iterator "."
\* included where the innermost scope is None.
C14_NullInterpolation ==
    status = "done" =>
        /\ (template \in {"{{x}}", "{{{x}}}", "{{&x}}"} /\ X = None) => result = ""
        /\ template = "[{{nope}}{{{nope}}}{{&x.nope}}]" => result = "[]"
        /\ (template = "{{#x}}[{{.}}]{{/x}}" /\ IsList(X, 1)) => result = EachOrEmpty(X.v, 1)

\* The lines of ls that carry no comment, in order.
RECURSIVE Kept(_)
Kept(ls) ==
    IF ls = <<>> THEN ""
    ELSE (IF \E k \in 0..Len(Head(ls)) : StartsAt(Head(ls), k, "{{!c}}") THEN "" ELSE Head(ls))
         \o Kept(Tail(ls))

\* C15: the rendering of a template whose only tags are standalone comments
\* is the template without the lines that carry the comments, every other
\* character unchanged and in order.
C15_CommentLines ==
    (template \in CommentTemplates /\ X = Str("v") /\ status # "init") =>
        /\ status # "error"
        /\ status = "done" =>
              \E ls \in LineSeqs : Join(ls) = template /\ result = Kept(ls)

\* text with each "&", "<", ">" and double quote replaced by its entity,
\* character by character.
RECURSIVE Entities(_)
Entities(text) ==
    IF text = "" THEN ""
    ELSE (CASE At(text, 0) = "&" -> "&amp;"
            [] At(text, 0) = "<" -> "&lt;"
            [] At(text, 0) = ">" -> "&gt;"
            [] At(text, 0) = "\"" -> "&quot;"
            [] OTHER -> At(text, 0))
         \o Entities(From(text, 1))

\* C16: an escaped interpolation with the default escape replaces every
\* "&", "<", ">" and double quote of the value's text by its entity and
\* emits every other character, single quotes included, unchanged: the
\* emitted value holds no raw "<", ">" or double quote, and every "&" in it
\* starts one of the four entities.
C16_DefaultEscape ==
    (template \in Escaping /\ X.t = "str" /\ status # "init") =>
        /\ status # "error"
        /\ status = "done" =>
              /\ result = Entities(X.v)
              /\ \A k \in 0..(Len(result) - 1) :
                    /\ At(result, k) \notin {"<", ">", "\""}
                    /\ At(result, k) = "&" =>
                          \E ent \in {"&amp;", "&lt;", "&gt;", "&quot;"} : StartsAt(result, k, ent)

C16_Witness ==
    /\ template = "{{x}}"
    /\ X = Str("'\"&<>&amp;'")
    /\ status = "done"
    /\ result = "'&quot;&amp;&lt;&gt;&amp;amp;'"

\* The position of a frame: the next item of a tree frame, the next element
\* of a section frame.  Width is above every position.
Position(f) == IF f.kind = "tree" THEN f.i ELSE f.j

Width == 16

\* The positions of the frames from depth d on as the digits of a number,
\* the outermost frame first.
RECURSIVE Digits(_)
Digits(d) ==
    IF d > Len(frames) THEN 0
    ELSE Position(frames[d]) * Width ^ (RecursionLimit - d) + Digits(d + 1)

\* How far the render is: 0 before it starts, Width ^ RecursionLimit + 1
\* once it is over.
Progress ==
    CASE status = "init" -> 0
      [] status = "running" -> 1 + Digits(1)
      [] OTHER -> Width ^ RecursionLimit + 2

\* A render that is not over has a step to take: the item, the return or
\* the turn of the loop its innermost frame is at.
CanStep ==
    \/ status = "init"
    \/ /\ Running
       /\ Top.kind = "tree"
       /\ Top.i <= Len(Top.tree)
       /\ Item.k \in {"lit", "escape", "literal", "partial", "section", "inverse"}
    \/ /\ Running
       /\ Top.kind = "tree"
       /\ Top.i > Len(Top.tree)
       /\ Len(frames) >= 2 => frames[Len(frames) - 1].kind \in {"tree", "section"}
    \/ /\ Running
       /\ Top.kind = "section"
       /\ Len(frames) >= 2

OpenBodies == {d \in 2..Len(frames) : frames[d].kind = "tree" /\ frames[d - 1].kind = "section"}

\* C18: a render that returns leaves the context stack holding the scopes
\* it held at entry, in their order; while it runs, the stack is as deep as
\* at entry plus the number of sections whose body is being rendered, an
\* inverted section and a partial adding no scope.
C18_StackFrame ==
    /\ [](/\ status = "done" => Len(stack) = entry
          /\ status = "running" => Len(stack) = entry + Cardinality(OpenBodies))
    /\ [][status' # "error" => SubSeq(stack', 1, entry) = SubSeq(stack, 1, entry)]_vars

C18_Witness ==
    /\ status = "running"
    /\ Cardinality(OpenBodies) = 1
    /\ Len(stack) = entry + 1
    /\ template = "{{#x}}{{>p}}{{^b}}I{{/b}}{{/x}}"
    /\ Len(frames) = 4
    /\ Top.kind = "tree"
    /\ Top.i = 1
    /\ Top.tree = <<Lit("I")>>

\* The index the parse resumes at after the outcome r of _handle_match: the
\* returned index, or the position an EndOfSection carries to the section
\* that catches it; -1 for another exception.
ResumeIndex(r) ==
    CASE r.kind = "index" -> r.index
      [] r.kind = "eos" -> r.position
      [] OTHER -> -1

\* The outcome r of handling the match found from index in a text of length
\* len brings the parse forward, and not past the end.
Advances(index, len, r) == r.kind = "err" \/ (index < ResumeIndex(r) /\ ResumeIndex(r) <= len)

Handled(t, index, otag, ctag, m) ==
    m.found => Advances(index, Len(t), handle_match(t, <<>>, m, index, otag, ctag))

\* The number of characters in the literal segments of a parse tree, the
\* trees of its sections included.
RECURSIVE LitLen(_)
LitLen(tree) ==
    IF tree = <<>> THEN 0
    ELSE (CASE Head(tree).k = "lit" -> Len(Head(tree).s)
            [] Head(tree).k \in {"section", "inverse"} -> LitLen(Head(tree).parse_tree)
            [] OTHER -> 0)
         + LitLen(Tail(tree))

Segments(t, p) == p.kind = "tree" => LitLen(p.tree) <= Len(t)

\* C19: every tag match handled by the parse of a text the render parses
\* (the template, a partial, the text a callable returns) resumes the
\* search after the index it started from and not past the end of the
\* text, from whatever index the search starts, and the literal segments of
\* the parse tree hold no character twice.  Stated where the parse has just
\* taken place: the render is at the first item, or the parse failed.
C19_ParserProgress ==
    (log # <<>> /\ (status = "error" \/ (Running /\ Position(Top) = 1))) =>
        /\ \A index \in 0..Len(log[Len(log)].text) :
              Handled(log[Len(log)].text, index, log[Len(log)].delims[1],
                      log[Len(log)].delims[2],
                      Search(log[Len(log)].text, index, log[Len(log)].delims[1],
                             log[Len(log)].delims[2]))
        /\ Segments(log[Len(log)].text,
                    parse_string_to_tree(log[Len(log)].text, log[Len(log)].delims))

C19_Witness ==
    /\ Len(log) = 1
    /\ template = " {{#x}}\r\n b \r\n  {{/x}}\n"
    /\ status = "running"
    /\ Position(Top) = 1
    /\ ResumeIndex(handle_match(template, <<>>, Search(template, 0, "{{", "}}"), 0, "{{", "}}"))
          = Len(template)
====
